---------------------------- MODULE Spec2Model ----------------------------
(***************************************************************************)
(* Model of the train-data preprocessing pipeline of src/train_processor.py *)
(* (DataProcessor, DataValidation, DataManager) and of the earlier pipeline *)
(* of src/data_processing.py (load_and_preprocess_data and its helpers).    *)
(*                                                                          *)
(* Text is modelled as a sequence of character codes, so that sorted(),     *)
(* str.lower() and the timestamp parser are computed the way the code       *)
(* computes them.  A cell of a dataframe is a record [k, s, n]:             *)
(*   k = "str"  a Python str, s its character codes                         *)
(*   k = "nan"  a missing value (float NaN / NaT)                           *)
(*   k = "dt"   a parsed timestamp, s = <<year, month, day, hour, min, sec>>*)
(*   k = "num"  a number, n its value                                       *)
(***************************************************************************)
EXTENDS Integers, Sequences, FiniteSets, TLC

(***************************************************************************)
(* Bounds of the model.                                                     *)
(***************************************************************************)
MaxRows == 2
MaxRuns == 2
MaxFrame == 3

(***************************************************************************)
(* Cells and text.                                                          *)
(***************************************************************************)
StrCell(s) == [k |-> "str", s |-> s, n |-> 0]
Missing == [k |-> "nan", s |-> <<>>, n |-> 0]
NumCell(n) == [k |-> "num", s |-> <<>>, n |-> n]
DtCell(f) == [k |-> "dt", s |-> f, n |-> 0]

sREAL == <<82, 69, 65, 76>>  \* "REAL"
sPROGNOSE == <<80, 82, 79, 71, 78, 79, 83, 69>>  \* "PROGNOSE"
sNan == <<110, 97, 110>>  \* "nan"
sFalse == <<102, 97, 108, 115, 101>>  \* "false"
sTrue == <<116, 114, 117, 101>>  \* "true"
sFalseCap == <<70, 97, 108, 115, 101>>  \* "False"
sTrueCap == <<84, 114, 117, 101>>  \* "True"
sFALSE == <<70, 65, 76, 83, 69>>  \* "FALSE"
sTRuE == <<116, 82, 117, 69>>  \* "tRuE"
sOne == <<49>>  \* "1"
sIC2 == <<73, 67, 50>>  \* "IC2"
sIC3 == <<73, 67, 51>>  \* "IC3"
sS1 == <<83, 49>>  \* "S1"
sLow == <<105, 99, 50>>  \* "ic2"
sZug == <<90, 117, 103>>  \* "Zug"
sL1 == <<56, 53, 58, 49, 49, 58, 50>>  \* "85:11:2"
sL2 == <<56, 53, 58, 49, 49, 58, 49, 48>>  \* "85:11:10"
tA == <<48, 49, 46, 48, 49, 46, 50, 48, 50, 52, 32, 49, 48, 58, 48, 53>>  \* "01.01.2024 10:05"
tB == <<48, 49, 46, 48, 49, 46, 50, 48, 50, 52, 32, 49, 48, 58, 48, 48, 58, 48, 48>>  \* "01.01.2024 10:00:00"
tC == <<48, 51, 46, 48, 50, 46, 50, 48, 50, 52, 32, 50, 51, 58, 53, 57>>  \* "03.02.2024 23:59"
tIso == <<50, 48, 50, 52, 45, 48, 51, 45, 48, 55, 84, 49, 52, 58, 50, 51, 58, 48, 48>>  \* "2024-03-07T14:23:00"
tSwap == <<48, 49, 46, 49, 51, 46, 50, 48, 50, 52, 32, 48, 56, 58, 48, 48>>  \* "01.13.2024 08:00"
tBad == <<107, 101, 105, 110, 32, 68, 97, 116, 117, 109>>  \* "kein Datum"

\* str(v) / Series.astype(str): a str is itself, a missing value is "nan".
Str(c) ==
  IF c.k = "nan" THEN sNan ELSE c.s

\* str.lower() on one character code: 'A'..'Z' -> 'a'..'z'.
LowerChar(ch) ==
  IF ch >= 65 /\ ch <= 90 THEN ch + 32 ELSE ch

Lower(s) ==
  [i \in DOMAIN s |-> LowerChar(s[i])]

\* Python's order on str: code point by code point, a proper prefix first.
RECURSIVE StrLess(_, _)
StrLess(a, b) ==
  IF a = <<>> THEN b # <<>>
  ELSE IF b = <<>> THEN FALSE
  ELSE IF Head(a) # Head(b) THEN Head(a) < Head(b)
  ELSE StrLess(Tail(a), Tail(b))

StrLeq(a, b) ==
  a = b \/ StrLess(a, b)

\* sorted(str(v) for v in unique_values): one entry per unique raw value, so
\* two raw values with the same text give the text twice.
RECURSIVE SortedStrs(_)
SortedStrs(U) ==
  IF U = {} THEN <<>>
  ELSE LET m == CHOOSE c \in U : \A d \in U : StrLeq(Str(c), Str(d))
       IN  <<Str(m)>> \o SortedStrs(U \ {m})

\* {str(val): idx for idx, val in enumerate(L)}: a later entry with the same
\* key overwrites the earlier one.
DictFromEnumerate(L) ==
  [s \in {L[i] : i \in DOMAIN L} |->
     (CHOOSE i \in DOMAIN L : L[i] = s /\ \A j \in DOMAIN L : L[j] = s => j <= i) - 1]


(***************************************************************************)
(* Timestamps: dd.to_datetime(col, format='mixed', dayfirst=True).  The     *)
(* parser is modelled for the layouts of the source data,                   *)
(* "DD.MM.YYYY HH:MM[:SS]" and ISO "YYYY-MM-DDTHH:MM:SS"; other text is     *)
(* rejected, and errors='raise' (the default) makes a rejected value raise. *)
(***************************************************************************)
IsDigit(ch) ==
  ch >= 48 /\ ch <= 57

AllDigits(s, P) ==
  \A i \in P : IsDigit(s[i])

Num2(s, i) ==
  (s[i] - 48) * 10 + (s[i + 1] - 48)

Num4(s, i) ==
  Num2(s, i) * 100 + Num2(s, i + 2)

IsLeap(y) ==
  (y % 4 = 0 /\ y % 100 # 0) \/ y % 400 = 0

DaysInMonth(y, m) ==
  IF m = 2 THEN (IF IsLeap(y) THEN 29 ELSE 28)
  ELSE IF m \in {4, 6, 9, 11} THEN 30 ELSE 31

ValidFields(f) ==
  /\ f[2] >= 1 /\ f[2] <= 12
  /\ f[3] >= 1 /\ f[3] <= DaysInMonth(f[1], f[2])
  /\ f[4] <= 23 /\ f[5] <= 59 /\ f[6] <= 59

\* "DD.MM.YYYY HH:MM" (16 characters) or "DD.MM.YYYY HH:MM:SS" (19).
IsDottedLayout(s) ==
  /\ Len(s) \in {16, 19}
  /\ s[3] = 46 /\ s[6] = 46 /\ s[11] = 32 /\ s[14] = 58
  /\ AllDigits(s, {1, 2, 4, 5, 7, 8, 9, 10, 12, 13, 15, 16})
  /\ Len(s) = 19 => (s[17] = 58 /\ AllDigits(s, {18, 19}))

\* "YYYY-MM-DDTHH:MM:SS"
IsIsoLayout(s) ==
  /\ Len(s) = 19
  /\ s[5] = 45 /\ s[8] = 45 /\ s[11] = 84 /\ s[14] = 58 /\ s[17] = 58
  /\ AllDigits(s, {1, 2, 3, 4, 6, 7, 9, 10, 12, 13, 15, 16, 18, 19})

\* dayfirst=True: the first two-digit group is the day; when that reading is
\* no date and the swapped one is, dateutil takes the swapped reading.
DottedFields(s) ==
  LET a == Num2(s, 1)
      b == Num2(s, 4)
      y == Num4(s, 7)
      sec == IF Len(s) = 19 THEN Num2(s, 18) ELSE 0
      dayFirst == <<y, b, a, Num2(s, 12), Num2(s, 15), sec>>
      swapped == <<y, a, b, Num2(s, 12), Num2(s, 15), sec>>
  IN  IF ValidFields(dayFirst) \/ ~ValidFields(swapped) THEN dayFirst ELSE swapped

IsoFields(s) ==
  <<Num4(s, 1), Num2(s, 6), Num2(s, 9), Num2(s, 12), Num2(s, 15), Num2(s, 18)>>

\* The value that fails to parse: pd.to_datetime raises on it.
ParseRaises(c) ==
  /\ c.k = "str"
  /\ ~(IsDottedLayout(c.s) /\ ValidFields(DottedFields(c.s)))
  /\ ~(IsIsoLayout(c.s) /\ ValidFields(IsoFields(c.s)))

\* One value through to_datetime; a missing value gives NaT.
ToDatetime(c) ==
  IF c.k = "dt" THEN c
  ELSE IF c.k # "str" \/ ParseRaises(c) THEN Missing
  ELSE IF IsDottedLayout(c.s) /\ ValidFields(DottedFields(c.s)) THEN DtCell(DottedFields(c.s))
  ELSE DtCell(IsoFields(c.s))

\* Days since 1970-01-01 of a proleptic Gregorian date.
DaysFromCivil(y, m, d) ==
  LET yy == IF m <= 2 THEN y - 1 ELSE y
      era == yy \div 400
      yoe == yy - era * 400
      mp == IF m > 2 THEN m - 3 ELSE m + 9
      doy == (153 * mp + 2) \div 5 + d - 1
      doe == yoe * 365 + yoe \div 4 - yoe \div 100 + doy
  IN  era * 146097 + doe - 719468

EpochSeconds(f) ==
  DaysFromCivil(f[1], f[2], f[3]) * 86400 + f[4] * 3600 + f[5] * 60 + f[6]

\* The difference with its operands exchanged.
DiffSecondsPredictedMinusActual(a, p) ==
  IF a.k = "dt" /\ p.k = "dt" THEN NumCell(EpochSeconds(p.s) - EpochSeconds(a.s))
  ELSE Missing

\* (actual - predicted).dt.total_seconds(): NaN when either side is NaT.
DiffSeconds(a, p) ==
  IF a.k = "dt" /\ p.k = "dt" THEN NumCell(EpochSeconds(a.s) - EpochSeconds(p.s))
  ELSE Missing

\* Series.dt.dayofweek: Monday = 0 .. Sunday = 6.
DayOfWeek(f) ==
  (DaysFromCivil(f[1], f[2], f[3]) + 3) % 7

ComponentNames == <<"_DAY", "_MONTH", "_YEAR", "_DAY_OF_WEEK", "_HOUR", "_MINUTE">>

\* The i-th calendar component of a timestamp cell; NaN for NaT.
Component(c, i) ==
  IF c.k # "dt" THEN Missing
  ELSE IF i = 1 THEN NumCell(c.s[3])
  ELSE IF i = 2 THEN NumCell(c.s[2])
  ELSE IF i = 3 THEN NumCell(c.s[1])
  ELSE IF i = 4 THEN NumCell(DayOfWeek(c.s))
  ELSE IF i = 5 THEN NumCell(c.s[4])
  ELSE NumCell(c.s[5])

(***************************************************************************)
(* The encoders of DataProcessor.encode_categorical_columns.                *)
(***************************************************************************)
\* bool_mapping = {'false': 0, 'true': 1, 'False': 0, 'True': 1}
bool_mapping ==
  [s \in {sFalse, sTrue, sFalseCap, sTrueCap} |->
     IF s \in {sFalse, sFalseCap} THEN 0 ELSE 1]

\* Series.map(mapping): the code of a key of the mapping, NaN for any other value.
MapValue(mapping, s) ==
  IF s \in DOMAIN mapping THEN NumCell(mapping[s]) ELSE Missing

\* The boolean encoding without .str.lower().
EncodeBoolAsWritten(c) ==
  MapValue(bool_mapping, Str(c))

\* ddf[col].astype(str).str.lower().map(bool_mapping), one value.
EncodeBool(c) ==
  MapValue(bool_mapping, Lower(Str(c)))

\* mapping = {str(val): idx for idx, val in
\*            enumerate(sorted(str(v) for v in unique_values))}
CategoricalMapping(unique_values) ==
  DictFromEnumerate(SortedStrs(unique_values))

\* ddf[col].astype(str).map(mapping), one value.
EncodeCategorical(mapping, c) ==
  MapValue(mapping, Str(c))


(***************************************************************************)
(* Configuration of DataProcessor and the source data.                      *)
(***************************************************************************)
bool_columns == <<"ZUSATZFAHRT_TF", "FAELLT_AUS_TF", "DURCHFAHRT_TF">>

categorical_columns ==
  <<"FAHRT_BEZEICHNER", "BETREIBER_ABK", "LINIEN_ID", "LINIEN_TEXT", "BPUIC">>

timestamp_pairs ==
  << <<"ANKUNFTSZEIT", "AN_PROGNOSE", "ARRIVAL_TIME_DIFF_SECONDS">>,
     <<"ABFAHRTSZEIT", "AB_PROGNOSE", "DEPARTURE_TIME_DIFF_SECONDS">> >>

StatusColumns == {"AN_PROGNOSE_STATUS", "AB_PROGNOSE_STATUS"}

SeqToSet(q) ==
  {q[i] : i \in DOMAIN q}

RawTimestampColumns ==
  {timestamp_pairs[i][j] : i \in DOMAIN timestamp_pairs, j \in {1, 2}}

\* CONFIG['exclude_columns'] and CONFIG['filters'], restricted to the columns
\* and values of the modelled files.
ConfigExclude == {"PRODUKT_ID", "BETREIBER_NAME", "BETREIBER_ID", "UMLAUF_ID",
                  "VERKEHRSMITTEL_TEXT", "HALTESTELLEN_NAME", "BETRIEBSTAG"}

ConfigFilters == << <<"LINIEN_TEXT", {sIC2, sIC3}>> >>

\* The header line of the first file: the full one of the source data (the
\* modelled columns of it), and one of a feed without departure columns.
FullHeader ==
  <<"PRODUKT_ID", "LINIEN_ID", "LINIEN_TEXT", "FAELLT_AUS_TF",
    "ANKUNFTSZEIT", "AN_PROGNOSE", "AN_PROGNOSE_STATUS",
    "ABFAHRTSZEIT", "AB_PROGNOSE", "AB_PROGNOSE_STATUS">>

ArrivalHeader ==
  <<"PRODUKT_ID", "LINIEN_ID", "LINIEN_TEXT", "FAELLT_AUS_TF",
    "ANKUNFTSZEIT", "AN_PROGNOSE", "AN_PROGNOSE_STATUS">>

Headers == {FullHeader, ArrivalHeader}

Row(lid, ltxt, tf, an, anp, ans, ab, abp, abs) ==
  [c \in SeqToSet(FullHeader) |->
     CASE c = "PRODUKT_ID" -> StrCell(sZug)
       [] c = "LINIEN_ID" -> lid
       [] c = "LINIEN_TEXT" -> ltxt
       [] c = "FAELLT_AUS_TF" -> tf
       [] c = "ANKUNFTSZEIT" -> an
       [] c = "AN_PROGNOSE" -> anp
       [] c = "AN_PROGNOSE_STATUS" -> ans
       [] c = "ABFAHRTSZEIT" -> ab
       [] c = "AB_PROGNOSE" -> abp
       [] OTHER -> abs]

\* The rows a file can hold, as read_csv delivers them (dtype object: a cell
\* is a str, or NaN where the field is empty).
RowPool ==
  << Row(StrCell(sL1), StrCell(sIC2), StrCell(sFalse),
         StrCell(tA), StrCell(tB), StrCell(sREAL),
         StrCell(tC), StrCell(tC), StrCell(sREAL)),
     Row(Missing, StrCell(sIC3), StrCell(sTrueCap),
         StrCell(tIso), Missing, StrCell(sREAL),
         StrCell(tSwap), StrCell(tA), StrCell(sREAL)),
     Row(StrCell(sL2), StrCell(sS1), StrCell(sFALSE),
         StrCell(tB), StrCell(tA), StrCell(sREAL),
         StrCell(tC), StrCell(tC), StrCell(sPROGNOSE)),
     Row(StrCell(sL2), StrCell(sIC2), Missing,
         StrCell(tA), StrCell(tB), StrCell(sREAL),
         StrCell(tBad), StrCell(tC), StrCell(sREAL)) >>

RowIds == DOMAIN RowPool

\* The items of the filter dict taken from the last to the first.
FilterItemReversed(filters, i) ==
  filters[Len(filters) + 1 - i]

\* The i-th (column, values) of `filters.items()`: a dict is iterated in the
\* order its keys were inserted.
FilterItem(filters, i) ==
  filters[i]

\* The exclude_columns and train_filters arguments a caller passes.
ExcludeChoices ==
  {{}, ConfigExclude, {"AN_PROGNOSE"}, {"AB_PROGNOSE_STATUS"},
   {"LINIEN_ID", "LINIEN_TEXT", "FAELLT_AUS_TF"}}

FilterChoices ==
  {<<>>,
   << <<"LINIEN_TEXT", {sIC2, sIC3}>>, <<"LINIEN_ID", {sL1}>> >>,
   << <<"LINIEN_ID", {sL1}>>, <<"LINIEN_TEXT", {sIC2, sIC3}>> >>,
   << <<"BPUIC", {sL1}>> >>,
   << <<"AB_PROGNOSE_STATUS", {sREAL, sPROGNOSE}>>, <<"LINIEN_TEXT", {sIC2, sS1}>> >>}

(***************************************************************************)
(* Dataframes.  A frame is [cols, rows, val, err]: the ordered column       *)
(* names, the ids of its rows, val[c][r] the cell of row r in column c, and *)
(* err, whether a task of its (lazy) graph raises when it is computed.      *)
(***************************************************************************)
NoFrame == [cols |-> <<>>, rows |-> {}, val |-> <<>>, err |-> FALSE]

Columns(d) ==
  SeqToSet(d.cols)

\* A frame of the columns `cols` of the rows `rows` of `pool`.
Frame(pool, cols, rows) ==
  [cols |-> cols, rows |-> rows,
   val |-> [c \in SeqToSet(cols) |-> [r \in rows |-> pool[r][c]]],
   err |-> FALSE]

\* dd.read_csv(files, usecols=cols): the rows of the files, the named columns.
ReadCsv(cols, rows) ==
  Frame(RowPool, cols, rows)

\* ddf.drop(columns=C)
DropColumns(d, C) ==
  [d EXCEPT !.cols = SelectSeq(d.cols, LAMBDA c : c \notin C),
            !.val = [c \in Columns(d) \ C |-> d.val[c]]]

\* ddf[c] = column: replaces the column, or appends it after the others.
SetColumn(d, c, column) ==
  [d EXCEPT !.cols = IF c \in Columns(d) THEN d.cols ELSE Append(d.cols, c),
            !.val = [x \in Columns(d) \cup {c} |-> IF x = c THEN column ELSE d.val[x]]]

\* ddf[mask]: the rows of the frame the mask keeps.
KeepRows(d, keep) ==
  [d EXCEPT !.rows = keep]

\* The mask taken over the column as it was read, not over the current frame.
IsinRowsOfColumnRead(d, column, values) ==
  {r \in DOMAIN d.val[column] : d.val[column][r].k = "str" /\ d.val[column][r].s \in values}

\* ddf[column].isin(values): the mask of a caller filter.
IsinRows(d, column, values) ==
  {r \in d.rows : d.val[column][r].k = "str" /\ d.val[column][r].s \in values}

\* (ddf["AN_PROGNOSE_STATUS"] == "REAL") & (ddf["AB_PROGNOSE_STATUS"] == "REAL")
RealRows(d) ==
  {r \in d.rows : \A c \in StatusColumns : d.val[c][r] = StrCell(sREAL)}

\* The frame as it is materialized: its rows only.
Materialized(d) ==
  [cols |-> d.cols, rows |-> d.rows,
   val |-> [c \in Columns(d) |-> [r \in d.rows |-> d.val[c][r]]]]


(***************************************************************************)
(* The stages of DataProcessor.process_data as functions of the frame.      *)
(***************************************************************************)
\* ddf.assign(**{col_DAY: ..., ..., col_MINUTE: ...}), components i..6.
RECURSIVE AssignComponents(_, _, _)
AssignComponents(d, col, i) ==
  IF i > Len(ComponentNames) THEN d
  ELSE AssignComponents(
         SetColumn(d, col \o ComponentNames[i],
                   [r \in d.rows |-> Component(d.val[col][r], i)]),
         col, i + 1)

\* One iteration of the loop over timestamp_pairs.
TimestampPair(d, pair) ==
  LET actual == pair[1]
      pred == pair[2]
      raises == \E r \in d.rows :
                  ParseRaises(d.val[actual][r]) \/ ParseRaises(d.val[pred][r])
      d1 == SetColumn(d, actual, [r \in d.rows |-> ToDatetime(d.val[actual][r])])
      d2 == SetColumn(d1, pred, [r \in d.rows |-> ToDatetime(d.val[pred][r])])
      d3 == SetColumn(d2, pair[3],
                      [r \in d.rows |-> DiffSeconds(d2.val[actual][r], d2.val[pred][r])])
      d4 == AssignComponents(AssignComponents(d3, actual, 1), pred, 1)
  IN  [DropColumns(d4, {actual, pred}) EXCEPT !.err = d.err \/ raises]

Encoded(col) ==
  col \o "_encoded"

Present(d, columns) ==
  SelectSeq(columns, LAMBDA c : c \in Columns(d))

\* ddf[col].dropna().unique().compute(): the missing value is left out.
UniqueValuesDropna(d, col) ==
  {d.val[col][r] : r \in d.rows} \ {Missing}

\* ddf[col].unique().compute()
UniqueValues(d, col) ==
  {d.val[col][r] : r \in d.rows}

\* The loop over self.bool_columns: the encoded columns it adds.
RECURSIVE EncodeBoolColumns(_, _)
EncodeBoolColumns(d, columns) ==
  IF columns = <<>> THEN d
  ELSE LET col == Head(columns)
       IN  EncodeBoolColumns(
             SetColumn(d, Encoded(col), [r \in d.rows |-> EncodeBool(d.val[col][r])]),
             Tail(columns))

\* The loop over self.categorical_columns: the encoded columns it adds.
RECURSIVE EncodeCategoricalColumns(_, _)
EncodeCategoricalColumns(d, columns) ==
  IF columns = <<>> THEN d
  ELSE LET col == Head(columns)
           mapping == CategoricalMapping(UniqueValues(d, col))
       IN  EncodeCategoricalColumns(
             SetColumn(d, Encoded(col),
                       [r \in d.rows |-> EncodeCategorical(mapping, d.val[col][r])]),
             Tail(columns))

\* self.encoding_maps after the assignments self.encoding_maps[col] = ... of
\* the two loops: the entries of the columns encoded now are set, every other
\* entry of the instance's dict stays.
UpdatedEncodingMaps(maps, d, boolCols, catCols) ==
  [c \in DOMAIN maps \cup SeqToSet(boolCols) \cup SeqToSet(catCols) |->
     IF c \in SeqToSet(catCols) THEN CategoricalMapping(UniqueValues(d, c))
     ELSE IF c \in SeqToSet(boolCols) THEN bool_mapping
     ELSE maps[c]]

\* pickle.dump(self.encoding_maps, f): the dict as its items, each inner dict
\* as its items; pickle.load rebuilds the dicts from the items.
PickleDump(maps) ==
  {<<c, {<<key, maps[c][key]>> : key \in DOMAIN maps[c]}>> : c \in DOMAIN maps}

PickleLoad(bytes) ==
  [c \in {e[1] : e \in bytes} |->
     LET items == (CHOOSE e \in bytes : e[1] = c)[2]
     IN  [key \in {i[1] : i \in items} |-> (CHOOSE i \in items : i[1] = key)[2]]]

\* sorted(mapping.items(), key=lambda x: x[1]): the items in ascending code order.
RECURSIVE ItemsByCode(_, _)
ItemsByCode(mapping, keys) ==
  IF keys = {} THEN <<>>
  ELSE LET k == CHOOSE x \in keys : \A y \in keys : mapping[x] <= mapping[y]
       IN  <<<<k, mapping[k]>>>> \o ItemsByCode(mapping, keys \ {k})

\* category_mappings.txt: the boolean section lists 'false' and 'true' for each
\* boolean column of the dict, the categorical section the items by code.
MappingReport(maps) ==
  LET b == SelectSeq(bool_columns, LAMBDA c : c \in DOMAIN maps)
      k == SelectSeq(categorical_columns, LAMBDA c : c \in DOMAIN maps)
  IN  [boolean |-> [i \in DOMAIN b |->
                      <<b[i], << <<sFalse, bool_mapping[sFalse]>>,
                                 <<sTrue, bool_mapping[sTrue]>> >> >>],
       categorical |-> [i \in DOMAIN k |->
                          <<k[i], ItemsByCode(maps[k[i]], DOMAIN maps[k[i]])>>]]

(***************************************************************************)
(* State.                                                                   *)
(***************************************************************************)
VARIABLES
  folder,     \* the train folder: [files, other, header, rows], the .csv files
              \* (their number, header and rows) and the number of other files
  args,       \* the arguments of the running call: [exclude, filters, path]
  caller,     \* who called process_data: "direct", "process_all"; "none" when idle
  pc,         \* the position of the running call
  idx,        \* the index of the running loop (filters, timestamp pairs)
  runs,       \* the calls made on this DataProcessor / DataManager so far
  ddf,        \* the local dataframe of the running call
  ingested,   \* the row ids read_csv delivered to the running call
  proc,       \* the DataProcessor: [cluster, client, encoding_maps, output_file_path]
  analyzer,   \* the DelayAnalyzer: [cluster, client]
  opened,     \* the clusters and clients that are open
  out,        \* the files the running call has written: [pkl, txt, parquet, path,
              \* validated, schema]
  ret,        \* the return values: [process_data, process_all, legacy]
  fatal,      \* the Exception that aborted the running call, "none" without one
  pending,    \* "interrupt" while a KeyboardInterrupt propagates, else "none"
  log         \* the stages the running call has executed, in order

vars == <<folder, args, caller, pc, idx, runs, ddf, ingested, proc, analyzer,
          opened, out, ret, fatal, pending, log>>

\* A LocalCluster or Client object, named by the call that created it: the
\* processor's of call n has id 2n-1, the analyzer's id 2n.
None == [kind |-> "none", id |-> 0]
Cluster(i) == [kind |-> "cluster", id |-> i]
Client(i) == [kind |-> "client", id |-> i]

ProcessorId == 2 * runs - 1
AnalyzerId == 2 * runs

NoFile == [written |-> FALSE, content |-> <<>>]
File(content) == [written |-> TRUE, content |-> content]
\* The schema argument of a to_parquet call: the fields of an explicit
\* pa.schema, or none (the engine infers the types from the data).
NoSchema == [explicit |-> FALSE, fields |-> <<>>]
NoOut == [pkl |-> NoFile, txt |-> NoFile, parquet |-> NoFile,
          path |-> "", validated |-> "no", schema |-> NoSchema]
NoRet == [process_data |-> "pending", process_all |-> "pending", legacy |-> "pending"]
NoArgs == [exclude |-> {}, filters |-> <<>>, path |-> "", skip_analysis |-> FALSE]

Folders ==
  {[files |-> 0, other |-> o, header |-> <<>>, rows |-> {}] : o \in {0, 1}} \cup
  {[files |-> 1, other |-> 0, header |-> h, rows |-> rs] :
     h \in Headers, rs \in {x \in SUBSET RowIds : Cardinality(x) <= MaxRows}}

Init ==
  /\ folder \in Folders
  /\ args = NoArgs
  /\ caller = "none"
  /\ pc = "idle"
  /\ idx = 0
  /\ runs = 0
  /\ ddf = NoFrame
  /\ ingested = {}
  /\ proc = [cluster |-> None, client |-> None, encoding_maps |-> <<>>,
             output_file_path |-> ""]
  /\ analyzer = [cluster |-> None, client |-> None]
  /\ opened = {}
  /\ out = NoOut
  /\ ret = NoRet
  /\ fatal = "none"
  /\ pending = "none"
  /\ log = <<>>

(***************************************************************************)
(* DataProcessor.process_data, one action per stage.  An Exception raised   *)
(* in the try body is caught by `except Exception` (the call returns None); *)
(* the finally clause is the action PD_Finally.                             *)
(***************************************************************************)
\* An except clause that logs and re-raises.
PD_Reraise(error) ==
  /\ pc' = "pd_finally"
  /\ ret' = [ret EXCEPT !.process_data = "raised"]
  /\ fatal' = error

\* An except clause after which the validation of the output still runs.
PD_RaiseThenValidate(error) ==
  /\ pc' = "pd_validate"
  /\ ret' = [ret EXCEPT !.process_data = "None"]
  /\ fatal' = error

\* except Exception as e: logging.error(...); return None
PD_Raise(error) ==
  /\ pc' = "pd_finally"
  /\ ret' = [ret EXCEPT !.process_data = "None"]
  /\ fatal' = error

\* The state a call of process_data starts in.
PD_Enter(who, exclude, filters, skip_analysis) ==
  /\ args' = [exclude |-> exclude, filters |-> filters,
              path |-> "processed_data.parquet", skip_analysis |-> skip_analysis]
  /\ caller' = who
  /\ pc' = "pd_init"
  /\ idx' = 0
  /\ ddf' = NoFrame
  /\ ingested' = {}
  /\ out' = NoOut
  /\ fatal' = "none"
  /\ pending' = "none"
  /\ log' = <<>>

\* A caller calls processor.process_data(folder, filters, path, exclude).
PD_Call ==
  /\ pc = "idle"
  /\ runs < MaxRuns
  /\ \E exclude \in ExcludeChoices, filters \in FilterChoices :
       PD_Enter("direct", exclude, filters, FALSE)
  /\ runs' = runs + 1
  /\ ret' = NoRet
  /\ UNCHANGED <<folder, proc, analyzer, opened>>

\* self.output_file_path = ...; self.initialize_cluster(): LocalCluster(...)
\* and Client(self.cluster), either of which may raise.
PD_Init ==
  /\ pc = "pd_init"
  /\ \E outcome \in {"ok", "cluster_raises", "client_raises"} :
       CASE outcome = "ok" ->
              /\ proc' = [proc EXCEPT !.output_file_path = args.path,
                                      !.cluster = Cluster(ProcessorId),
                                      !.client = Client(ProcessorId)]
              /\ opened' = opened \cup {Cluster(ProcessorId), Client(ProcessorId)}
              /\ pc' = "pd_list"
              /\ UNCHANGED <<ret, fatal>>
         [] outcome = "client_raises" ->
              /\ proc' = [proc EXCEPT !.output_file_path = args.path,
                                      !.cluster = Cluster(ProcessorId)]
              /\ opened' = opened \cup {Cluster(ProcessorId)}
              /\ PD_Raise("client")
         [] OTHER ->
              /\ proc' = [proc EXCEPT !.output_file_path = args.path]
              /\ UNCHANGED opened
              /\ PD_Raise("cluster")
  /\ log' = Append(log, "init")
  /\ UNCHANGED <<folder, args, caller, idx, runs, ddf, ingested, analyzer, out, pending>>

\* The listing without `if not data_files: raise Exception(...)`.
PD_ListUnchecked ==
  /\ pc = "pd_list"
  /\ pc' = "pd_read"
  /\ log' = Append(log, "list")
  /\ UNCHANGED <<folder, args, caller, idx, runs, ddf, ingested, proc, analyzer,
                 opened, out, ret, fatal, pending>>

\* data_files = [... if f.endswith('.csv')]; if not data_files: raise
PD_List ==
  /\ pc = "pd_list"
  /\ IF folder.files = 0
       THEN PD_Raise("no_files")
       ELSE pc' = "pd_read" /\ UNCHANGED <<ret, fatal>>
  /\ log' = Append(log, "list")
  /\ UNCHANGED <<folder, args, caller, idx, runs, ddf, ingested, proc, analyzer,
                 opened, out, pending>>

\* all_columns from the header of the first file, needed_columns, dd.read_csv;
\* a file that cannot be parsed raises.
PD_Read ==
  /\ pc = "pd_read"
  /\ \E parsed \in BOOLEAN :
       IF parsed
         THEN LET needed_columns ==
                    SelectSeq(folder.header, LAMBDA c : c \notin args.exclude)
              IN  /\ ddf' = ReadCsv(needed_columns, folder.rows)
                  /\ ingested' = folder.rows
                  /\ pc' = "pd_filter"
                  /\ idx' = 1
                  /\ UNCHANGED <<ret, fatal>>
         ELSE PD_Raise("read") /\ UNCHANGED <<ddf, ingested, idx>>
  /\ log' = Append(log, "read")
  /\ UNCHANGED <<folder, args, caller, runs, proc, analyzer, opened, out, pending>>

\* One iteration of `for column, values in train_filters.items()`: the filter
\* is applied when the column is in the frame, and passed over when it is not.
PD_CallerFilter ==
  /\ pc = "pd_filter"
  /\ idx <= Len(args.filters)
  /\ LET column == FilterItem(args.filters, idx)[1]
         values == FilterItem(args.filters, idx)[2]
     IN  IF column \in Columns(ddf)
           THEN /\ ddf' = KeepRows(ddf, IsinRows(ddf, column, values))
                /\ log' = Append(log, "filter:" \o column)
           ELSE UNCHANGED <<ddf, log>>
  /\ idx' = idx + 1
  /\ UNCHANGED <<folder, args, caller, pc, runs, ingested, proc, analyzer, opened, out, ret, fatal, pending>>

\* "Filtering for REAL status...": when both status columns are in the frame,
\* the rows with both equal to "REAL" are kept and the two columns dropped.
PD_StatusFilter ==
  /\ pc = "pd_filter"
  /\ idx > Len(args.filters)
  /\ IF StatusColumns \subseteq Columns(ddf)
       THEN /\ ddf' = DropColumns(KeepRows(ddf, RealRows(ddf)), StatusColumns)
            /\ log' = log \o <<"validity", "drop_status">>
       ELSE UNCHANGED <<ddf, log>>
  /\ pc' = "pd_ts"
  /\ idx' = 1
  /\ UNCHANGED <<folder, args, caller, runs, ingested, proc, analyzer, opened, out, ret, fatal, pending>>

\* One iteration of `for actual_col, pred_col, diff_col in timestamp_pairs`.
\* to_datetime is lazy: a value that does not parse raises when the frame is
\* next computed.
PD_Timestamps ==
  /\ pc = "pd_ts"
  /\ idx <= Len(timestamp_pairs)
  /\ LET pair == timestamp_pairs[idx]
     IN  IF {pair[1], pair[2]} \subseteq Columns(ddf)
           THEN /\ ddf' = TimestampPair(ddf, pair)
                /\ log' = Append(log, "timestamps:" \o pair[3])
           ELSE UNCHANGED <<ddf, log>>
  /\ pc' = IF idx = Len(timestamp_pairs) THEN "pd_encode" ELSE "pd_ts"
  /\ idx' = idx + 1
  /\ UNCHANGED <<folder, args, caller, runs, ingested, proc, analyzer, opened, out, ret, fatal, pending>>

\* An encoder whose `except` clause around the two artifact writes is missing:
\* a failed write ends the try body of process_data.
EncoderSaveFailureAborts(succ) ==
  LET boolCols == Present(ddf, bool_columns)
      catCols == Present(ddf, categorical_columns)
      maps == UpdatedEncodingMaps(proc.encoding_maps, ddf, boolCols, catCols)
  IN  /\ proc' = [proc EXCEPT !.encoding_maps = maps]
      /\ ddf' = EncodeCategoricalColumns(EncodeBoolColumns(ddf, boolCols), catCols)
      /\ \E saved \in {"ok", "pickle_raises", "report_raises"} :
           /\ out' = [out EXCEPT
                        !.pkl = IF saved = "pickle_raises" THEN NoFile
                                ELSE File(PickleDump(maps)),
                        !.txt = IF saved = "ok" THEN File(MappingReport(maps))
                                ELSE NoFile]
           /\ pc' = IF saved = "ok" THEN succ ELSE "pd_finally"
      /\ log' = log \o <<"encode", "save_maps">>

\* encode_categorical_columns(ddf) when no unique().compute() raises: the
\* encoded columns are added, self.encoding_maps updated, and the two artifacts
\* written; a failure to write them is caught and printed as a warning.
EncoderReturns(succ) ==
  LET boolCols == Present(ddf, bool_columns)
      catCols == Present(ddf, categorical_columns)
      maps == UpdatedEncodingMaps(proc.encoding_maps, ddf, boolCols, catCols)
  IN  /\ proc' = [proc EXCEPT !.encoding_maps = maps]
      /\ ddf' = EncodeCategoricalColumns(EncodeBoolColumns(ddf, boolCols), catCols)
      /\ \E saved \in {"ok", "pickle_raises", "report_raises"} :
           out' = [out EXCEPT
                     !.pkl = IF saved = "pickle_raises" THEN NoFile
                             ELSE File(PickleDump(maps)),
                     !.txt = IF saved = "ok" THEN File(MappingReport(maps))
                             ELSE NoFile]
      /\ log' = log \o <<"encode", "save_maps">>
      /\ pc' = succ

\* encode_categorical_columns(ddf) when the first unique().compute() raises
\* (a task of the frame raises): the boolean loop has run, nothing is saved.
EncoderRaises ==
  /\ proc' = [proc EXCEPT !.encoding_maps =
                UpdatedEncodingMaps(@, ddf, Present(ddf, bool_columns), <<>>)]
  /\ log' = Append(log, "encode")
  /\ UNCHANGED <<ddf, out>>

\* ddf = self.encode_categorical_columns(ddf)
PD_Encode ==
  /\ pc = "pd_encode"
  /\ IF ddf.err /\ Present(ddf, categorical_columns) # <<>>
       THEN EncoderRaises /\ PD_Raise("value")
       ELSE EncoderReturns("pd_drop") /\ UNCHANGED <<ret, fatal>>
  /\ UNCHANGED <<folder, args, caller, idx, runs, ingested, analyzer, opened, pending>>

\* "Drop original categorical columns after encoding"
PD_DropOriginals ==
  /\ pc = "pd_drop"
  /\ LET columns_to_drop == Present(ddf, bool_columns \o categorical_columns)
     IN  IF columns_to_drop # <<>>
           THEN ddf' = DropColumns(ddf, SeqToSet(columns_to_drop))
           ELSE UNCHANGED ddf
  /\ log' = Append(log, "drop_originals")
  /\ pc' = "pd_write"
  /\ UNCHANGED <<folder, args, caller, idx, runs, ingested, proc, analyzer, opened, out, ret, fatal, pending>>

\* to_parquet(..., compute=False): the write is only planned when the call
\* returns.
PD_WriteDeferred ==
  /\ pc = "pd_write"
  /\ pc' = "pd_validate"
  /\ log' = Append(log, "write")
  /\ UNCHANGED <<folder, args, caller, idx, runs, ddf, ingested, proc, analyzer,
                 opened, out, ret, fatal, pending>>

\* ddf.repartition(...); ddf.to_parquet(output_file_path, ...): the frame is
\* computed (a task that raises, raises now) and written; the write may fail.
PD_Write ==
  /\ pc = "pd_write"
  /\ IF ddf.err
       THEN PD_Raise("value") /\ UNCHANGED out
       ELSE \E written \in BOOLEAN :
              IF written
                THEN /\ out' = [out EXCEPT !.parquet = File(Materialized(ddf)),
                                           !.path = args.path,
                                           !.schema = NoSchema]
                     /\ pc' = "pd_validate"
                     /\ UNCHANGED <<ret, fatal>>
                ELSE PD_Raise("write") /\ UNCHANGED out
  /\ log' = Append(log, "write")
  /\ UNCHANGED <<folder, args, caller, idx, runs, ddf, ingested, proc, analyzer,
                 opened, pending>>

\* A validation whose failure is raised instead of reported: the except clause
\* of process_data returns None.
PD_ValidateRaises ==
  /\ pc = "pd_validate"
  /\ \E success \in BOOLEAN :
       IF success
         THEN /\ out' = [out EXCEPT !.validated = "ok"]
              /\ ret' = [ret EXCEPT !.process_data = args.path]
              /\ pc' = "pd_finally"
              /\ UNCHANGED fatal
         ELSE /\ out' = [out EXCEPT !.validated = "failed"]
              /\ PD_Raise("validation")
  /\ log' = Append(log, "validate")
  /\ UNCHANGED <<folder, args, caller, idx, runs, ddf, ingested, proc, analyzer,
                 opened, pending>>

\* DataValidation.validate_parquet(output_file_path), which reports a failure
\* as (False, ...); then `return output_file_path`.
PD_Validate ==
  /\ pc = "pd_validate"
  /\ \E success \in BOOLEAN :
       out' = [out EXCEPT !.validated = IF success THEN "ok" ELSE "failed"]
  /\ ret' = [ret EXCEPT !.process_data = args.path]
  /\ log' = Append(log, "validate")
  /\ pc' = "pd_finally"
  /\ UNCHANGED <<folder, args, caller, idx, runs, ddf, ingested, proc, analyzer,
                 opened, fatal, pending>>

\* The positions inside the try body of process_data.
PD_TryBody ==
  {"pd_init", "pd_list", "pd_read", "pd_filter", "pd_ts", "pd_encode", "pd_drop",
   "pd_write", "pd_validate"}

\* if handle: handle.close()
Close(handle, open) ==
  IF handle # None THEN open \ {handle} ELSE open

\* A finally clause that closes the cluster only under `if self.client`.
PD_ClosedUnderClient(p, open) ==
  IF p.client # None THEN Close(p.cluster, Close(p.client, open)) ELSE open

\* finally: if self.client: self.client.close()
\*          if self.cluster: self.cluster.close()
PD_Closed(p, open) ==
  Close(p.cluster, Close(p.client, open))

\* The finally clause after the return statement of the try body or of the
\* except clause.
PD_Finally ==
  /\ pc = "pd_finally"
  /\ opened' = PD_Closed(proc, opened)
  /\ ddf' = NoFrame
  /\ pc' = IF caller = "process_all" THEN "pa_after" ELSE "returned"
  /\ log' = Append(log, "finally")
  /\ UNCHANGED <<folder, args, caller, idx, runs, ingested, proc, analyzer,
                 out, ret, fatal, pending>>

\* A KeyboardInterrupt in the try body: `except Exception` does not catch it,
\* the finally clause runs and the interrupt propagates to the caller (out of
\* process_all as well).  During initialize_cluster it may arrive after
\* self.cluster was assigned.
PD_Interrupt ==
  /\ pc \in PD_TryBody
  /\ \E created \in BOOLEAN :
       LET assigned == pc = "pd_init" /\ created
           p == IF assigned
                  THEN [proc EXCEPT !.output_file_path = args.path,
                                    !.cluster = Cluster(ProcessorId)]
                  ELSE proc
           open == IF assigned THEN opened \cup {Cluster(ProcessorId)} ELSE opened
       IN  /\ proc' = p
           /\ opened' = PD_Closed(p, open)
  /\ pending' = "interrupt"
  /\ ret' = [ret EXCEPT !.process_data = "raised",
                        !.process_all = IF caller = "process_all" THEN "raised" ELSE @]
  /\ ddf' = NoFrame
  /\ log' = Append(log, "finally")
  /\ pc' = "returned"
  /\ UNCHANGED <<folder, args, caller, idx, runs, ingested, analyzer, out, fatal>>

(***************************************************************************)
(* DataManager.process_all and DelayAnalyzer.analyze_delays.                *)
(***************************************************************************)
\* What a successful download leaves in an empty train folder.
DownloadedFolder == [files |-> 1, other |-> 0, header |-> FullHeader, rows |-> {1}]

\* The train folder after a successful download: the extracted .csv files are
\* added to what the folder holds.
Downloaded(f) ==
  IF f.files = 0 THEN [DownloadedFolder EXCEPT !.other = f.other] ELSE f

\* process_all(force_download, skip_analysis): the download when it is forced
\* or the train folder is empty (a failed one raises, and process_all returns
\* None), then the call of self.processor.process_data with CONFIG's filters
\* and exclude list.
PA_Call ==
  /\ pc = "idle"
  /\ runs < MaxRuns
  /\ runs' = runs + 1
  /\ \E force_download \in BOOLEAN, skip_analysis \in BOOLEAN, success \in BOOLEAN :
       IF (force_download \/ folder.files + folder.other = 0) /\ ~success
         THEN /\ ret' = [NoRet EXCEPT !.process_all = "None"]
              /\ fatal' = "download"
              /\ pc' = "returned"
              /\ caller' = "process_all"
              /\ args' = [NoArgs EXCEPT !.skip_analysis = skip_analysis]
              /\ log' = <<"download">>
              /\ idx' = 0 /\ ddf' = NoFrame /\ ingested' = {} /\ out' = NoOut
              /\ pending' = "none"
              /\ UNCHANGED folder
         ELSE /\ PD_Enter("process_all", ConfigExclude, ConfigFilters, skip_analysis)
              /\ ret' = NoRet
              /\ folder' = IF force_download \/ folder.files + folder.other = 0
                              THEN Downloaded(folder) ELSE folder
  /\ UNCHANGED <<proc, analyzer, opened>>

\* result = self.processor.process_data(...) has returned:
\* if result and not skip_analysis: self.analyzer.analyze_delays(result)
PA_AfterProcess ==
  /\ pc = "pa_after"
  /\ IF ret.process_data # "None" /\ ~args.skip_analysis
       THEN pc' = "an_init" /\ UNCHANGED ret
       ELSE /\ pc' = "returned"
            /\ ret' = [ret EXCEPT !.process_all = ret.process_data]
  /\ UNCHANGED <<folder, args, caller, idx, runs, ddf, ingested, proc, analyzer,
                 opened, out, fatal, pending, log>>

\* analyze_delays: self.initialize_cluster() inside its try.
AN_Init ==
  /\ pc = "an_init"
  /\ \E outcome \in {"ok", "cluster_raises", "client_raises"} :
       CASE outcome = "ok" ->
              /\ analyzer' = [cluster |-> Cluster(AnalyzerId), client |-> Client(AnalyzerId)]
              /\ opened' = opened \cup {Cluster(AnalyzerId), Client(AnalyzerId)}
              /\ pc' = "an_run"
         [] outcome = "client_raises" ->
              /\ analyzer' = [analyzer EXCEPT !.cluster = Cluster(AnalyzerId)]
              /\ opened' = opened \cup {Cluster(AnalyzerId)}
              /\ pc' = "an_finally"
         [] OTHER ->
              /\ pc' = "an_finally"
              /\ UNCHANGED <<analyzer, opened>>
  /\ log' = Append(log, "analysis_init")
  /\ UNCHANGED <<folder, args, caller, idx, runs, ddf, ingested, proc, out, ret,
                 fatal, pending>>

\* The analysis itself; an Exception in it is logged, analyze_delays returns None.
AN_Run ==
  /\ pc = "an_run"
  /\ pc' = "an_finally"
  /\ log' = Append(log, "analysis")
  /\ UNCHANGED <<folder, args, caller, idx, runs, ddf, ingested, proc, analyzer,
                 opened, out, ret, fatal, pending>>

\* A finally clause of analyze_delays that closes the client and leaves the
\* cluster running.
AnalyzerClosedClientOnly(a, open) ==
  Close(a.client, open)

\* analyze_delays' finally clause.
AnalyzerClosed(a, open) ==
  Close(a.cluster, Close(a.client, open))

\* A KeyboardInterrupt in analyze_delays: its finally clause runs and the
\* interrupt propagates out of process_all.  During initialize_cluster it may
\* arrive after self.cluster was assigned.
AN_Interrupt ==
  /\ pc \in {"an_init", "an_run"}
  /\ \E created \in BOOLEAN :
       LET assigned == pc = "an_init" /\ created
           a == IF assigned
                  THEN [analyzer EXCEPT !.cluster = Cluster(AnalyzerId)]
                  ELSE analyzer
           open == IF assigned THEN opened \cup {Cluster(AnalyzerId)} ELSE opened
       IN  /\ analyzer' = a
           /\ opened' = AnalyzerClosed(a, open)
  /\ pending' = "interrupt"
  /\ ret' = [ret EXCEPT !.process_all = "raised"]
  /\ pc' = "returned"
  /\ UNCHANGED <<folder, args, caller, idx, runs, ddf, ingested, proc, out, fatal,
                 log>>

\* analyze_delays' finally clause, then process_all's `return result`.
AN_Finally ==
  /\ pc = "an_finally"
  /\ opened' = AnalyzerClosed(analyzer, opened)
  /\ ret' = [ret EXCEPT !.process_all = ret.process_data]
  /\ pc' = "returned"
  /\ UNCHANGED <<folder, args, caller, idx, runs, ddf, ingested, proc, analyzer, out, fatal, pending, log>>

(***************************************************************************)
(* The pipeline of src/data_processing.py: load_and_preprocess_data and     *)
(* preprocess_and_save_data.  Every helper catches its Exceptions and       *)
(* returns None, and the caller returns None in turn.                       *)
(***************************************************************************)
BoolTokens == {sTrue, sTrueCap, sFalse, sFalseCap, sFALSE}

\* read_csv with no dtype for a column: a column holding only true/false
\* tokens (and no empty field) is read as bool, any other as it stands.
InferColumn(column) ==
  IF column # <<>> /\ \A r \in DOMAIN column :
       column[r].k = "str" /\ column[r].s \in BoolTokens
    THEN [r \in DOMAIN column |->
            NumCell(IF Lower(column[r].s) = sTrue THEN 1 ELSE 0)]
    ELSE column

\* The dtype table of _load_data.
LegacyObjectColumns ==
  {"LINIEN_ID", "UMLAUF_ID", "BETREIBER_ABK", "LINIEN_TEXT", "BETRIEBSTAG"}

\* _load_data: dd.read_csv(data_files, delimiter, dtype={...}), every column.
LegacyReadCsv(header, rows) ==
  LET raw == ReadCsv(header, rows)
  IN  [raw EXCEPT !.val = [c \in DOMAIN raw.val |->
                             IF c \in LegacyObjectColumns THEN raw.val[c]
                             ELSE InferColumn(raw.val[c])]]

\* The order of the categories of astype('category'): the values in ascending order.
CellLess(a, b) ==
  IF a.k = "str" /\ b.k = "str" THEN StrLess(a.s, b.s)
  ELSE IF a.k = "dt" /\ b.k = "dt" THEN EpochSeconds(a.s) < EpochSeconds(b.s)
  ELSE a.n < b.n

\* df[column].astype('category').cat.codes on one partition: the rank of the
\* value among the partition's values, -1 for a missing value.
CategoryCodes(column, partition) ==
  LET categories == {column[r] : r \in partition} \ {Missing}
  IN  [r \in partition |->
         IF column[r] = Missing THEN NumCell(-1)
         ELSE NumCell(Cardinality({v \in categories : CellLess(v, column[r])}))]

\* data.map_partitions(encode_partition) over the partitions `first` and the rest.
EncodePartitions(d, first) ==
  [d EXCEPT !.val = [c \in Columns(d) |->
                       CategoryCodes(d.val[c], first) @@
                       CategoryCodes(d.val[c], d.rows \ first)]]

\* calculate_time_difference(data, col1, col2, new_col_name)
TimeDifference(d, pair) ==
  LET raises == \E r \in d.rows :
                  ParseRaises(d.val[pair[1]][r]) \/ ParseRaises(d.val[pair[2]][r])
      d1 == SetColumn(d, pair[1], [r \in d.rows |-> ToDatetime(d.val[pair[1]][r])])
      d2 == SetColumn(d1, pair[2], [r \in d.rows |-> ToDatetime(d.val[pair[2]][r])])
  IN  [SetColumn(d2, pair[3],
                 [r \in d.rows |-> DiffSeconds(d2.val[pair[1]][r], d2.val[pair[2]][r])])
         EXCEPT !.err = d.err \/ raises]

\* data.dtypes, one column: the dtype of the cells the column holds.
Dtype(d, c) ==
  IF \A r \in d.rows : d.val[c][r].k = "num" THEN "int64"
  ELSE IF \A r \in d.rows : d.val[c][r].k \in {"dt", "nan"} THEN "datetime64[ns]"
  ELSE "object"

\* The chain of is_bool_dtype / is_integer_dtype / is_float_dtype tests, with
\* pa.string() for every other dtype.
PaType(dtype) ==
  CASE dtype = "bool" -> "bool"
    [] dtype = "int64" -> "int64"
    [] dtype = "float64" -> "float64"
    [] OTHER -> "string"

\* schema = pa.schema(schema_fields), built from data.dtypes.items().
Schema(d) ==
  [explicit |-> TRUE,
   fields |-> [i \in DOMAIN d.cols |-> <<d.cols[i], PaType(Dtype(d, d.cols[i]))>>]]

\* output_file_path.replace('.csv', '.parquet')
ReplaceCsvSuffix(path) ==
  IF path = "processed_data.csv" THEN "processed_data.parquet" ELSE path

\* A helper returned None: the entry point returns None.
LP_ReturnNone(error) ==
  /\ pc' = "returned"
  /\ ret' = [ret EXCEPT !.legacy = "None"]
  /\ fatal' = error

\* load_and_preprocess_data(train_folder, filters, output_file_path, exclude_columns)
LP_Call ==
  /\ pc = "idle"
  /\ runs < MaxRuns
  /\ runs' = runs + 1
  /\ \E exclude \in ExcludeChoices, filters \in FilterChoices :
       args' = [exclude |-> exclude, filters |-> filters,
                path |-> "processed_data.csv", skip_analysis |-> FALSE]
  /\ caller' = "legacy"
  /\ pc' = "lp_load"
  /\ idx' = 0 /\ ddf' = NoFrame /\ ingested' = {} /\ out' = NoOut
  /\ ret' = NoRet /\ fatal' = "none" /\ pending' = "none" /\ log' = <<>>
  /\ UNCHANGED <<folder, proc, analyzer, opened>>

\* _get_csv_files and _load_data: read_csv raises on an empty file list and on
\* files it cannot parse, and _load_data returns None.
LP_Load ==
  /\ pc = "lp_load"
  /\ \E parsed \in BOOLEAN :
       IF parsed /\ folder.files > 0
         THEN /\ ddf' = LegacyReadCsv(folder.header, folder.rows)
              /\ ingested' = folder.rows
              /\ pc' = "lp_validity"
              /\ UNCHANGED <<ret, fatal>>
         ELSE LP_ReturnNone(IF folder.files = 0 THEN "no_files" ELSE "read")
              /\ UNCHANGED <<ddf, ingested>>
  /\ log' = Append(log, "read")
  /\ UNCHANGED <<folder, args, caller, idx, runs, proc, analyzer, opened,
                 out, pending>>

\* _apply_filters, the built-in filter: a status column that is not in the
\* data raises (KeyError), which is caught: None.
LP_Validity ==
  /\ pc = "lp_validity"
  /\ IF StatusColumns \subseteq Columns(ddf)
       THEN /\ ddf' = KeepRows(ddf, RealRows(ddf))
            /\ pc' = "lp_filter"
            /\ idx' = 1
            /\ UNCHANGED <<ret, fatal>>
       ELSE LP_ReturnNone("column") /\ UNCHANGED <<ddf, idx>>
  /\ log' = Append(log, "validity")
  /\ UNCHANGED <<folder, args, caller, runs, ingested, proc, analyzer, opened, out, pending>>

\* _apply_filters, one iteration of `for column, values in filters.items()`:
\* a column that is not in the data is logged as an error and None returned.
LP_Filter ==
  /\ pc = "lp_filter"
  /\ idx <= Len(args.filters)
  /\ LET column == FilterItem(args.filters, idx)[1]
         values == FilterItem(args.filters, idx)[2]
     IN  IF column \in Columns(ddf)
           THEN /\ ddf' = KeepRows(ddf, IsinRows(ddf, column, values))
                /\ log' = Append(log, "filter:" \o column)
                /\ idx' = idx + 1
                /\ UNCHANGED <<pc, ret, fatal>>
           ELSE LP_ReturnNone("filter_column") /\ UNCHANGED <<ddf, log, idx>>
  /\ UNCHANGED <<folder, args, caller, runs, ingested, proc, analyzer, opened, out, pending>>

\* _exclude_columns: data.drop(columns=exclude_columns, errors='ignore')
LP_Exclude ==
  /\ pc = "lp_filter"
  /\ idx > Len(args.filters)
  /\ ddf' = DropColumns(ddf, args.exclude)
  /\ log' = Append(log, "exclude")
  /\ pc' = "lp_preprocess"
  /\ UNCHANGED <<folder, args, caller, idx, runs, ingested, proc, analyzer, opened, out, ret, fatal, pending>>

\* _preprocess_data: fillna(np.nan) and infer_objects leave the cells as they are.
LP_Preprocess ==
  /\ pc = "lp_preprocess"
  /\ log' = Append(log, "preprocess")
  /\ pc' = "lp_time"
  /\ idx' = 1
  /\ UNCHANGED <<folder, args, caller, runs, ddf, ingested, proc, analyzer, opened, out, ret, fatal, pending>>

\* One call of calculate_time_difference: a column that is not in the data
\* raises (KeyError), which is caught: None.
LP_TimeDifference ==
  /\ pc = "lp_time"
  /\ idx <= Len(timestamp_pairs)
  /\ LET pair == timestamp_pairs[idx]
     IN  IF {pair[1], pair[2]} \subseteq Columns(ddf)
           THEN /\ ddf' = TimeDifference(ddf, pair)
                /\ pc' = IF idx = Len(timestamp_pairs) THEN "lp_encode" ELSE "lp_time"
                /\ idx' = idx + 1
                /\ UNCHANGED <<ret, fatal>>
           ELSE LP_ReturnNone("column") /\ UNCHANGED <<ddf, idx>>
  /\ log' = Append(log, "timestamps:" \o timestamp_pairs[idx][3])
  /\ UNCHANGED <<folder, args, caller, runs, ingested, proc, analyzer, opened, out, pending>>

\* _encode_categorical_columns: every column to its category codes, partition
\* by partition (the rows are split into two partitions in any way).
LP_Encode ==
  /\ pc = "lp_encode"
  /\ \E first \in SUBSET ddf.rows :
       ddf' = EncodePartitions(ddf, first)
  /\ log' = Append(log, "encode")
  /\ pc' = "lp_save"
  /\ UNCHANGED <<folder, args, caller, idx, runs, ingested, proc, analyzer, opened, out, ret, fatal, pending>>

\* save_processed_data: the frame is computed and written under the schema
\* built from its dtypes; any Exception is caught: None.
LP_Save ==
  /\ pc = "lp_save"
  /\ IF ddf.err
       THEN LP_ReturnNone("value") /\ UNCHANGED out
       ELSE \E written \in BOOLEAN :
              IF written
                THEN /\ out' = [out EXCEPT !.parquet = File(Materialized(ddf)),
                                           !.path = ReplaceCsvSuffix(args.path),
                                           !.schema = Schema(ddf)]
                     /\ ret' = [ret EXCEPT !.legacy = ReplaceCsvSuffix(args.path)]
                     /\ pc' = "returned"
                     /\ UNCHANGED fatal
                ELSE LP_ReturnNone("write") /\ UNCHANGED out
  /\ ddf' = NoFrame
  /\ log' = Append(log, "write")
  /\ UNCHANGED <<folder, args, caller, idx, runs, ingested, proc, analyzer, opened, pending>>

\* The caller has the result of the call; of the finished call nothing remains
\* but the fields of the instances.  A KeyboardInterrupt that propagated ends
\* the program.
Idle ==
  /\ pc = "returned"
  /\ pending = "none"
  /\ pc' = "idle"
  /\ args' = NoArgs
  /\ caller' = "none"
  /\ idx' = 0
  /\ ingested' = {}
  /\ out' = NoOut
  /\ ret' = NoRet
  /\ fatal' = "none"
  /\ log' = <<>>
  /\ UNCHANGED <<folder, runs, ddf, proc, analyzer, opened, pending>>

Next ==
  \/ Idle
  \/ PD_Call
  \/ PD_Init
  \/ PD_List
  \/ PD_Read
  \/ PD_CallerFilter
  \/ PD_StatusFilter
  \/ PD_Timestamps
  \/ PD_Encode
  \/ PD_DropOriginals
  \/ PD_Write
  \/ PD_Validate
  \/ PD_Interrupt
  \/ PD_Finally
  \/ PA_Call
  \/ PA_AfterProcess
  \/ AN_Init
  \/ AN_Run
  \/ AN_Interrupt
  \/ AN_Finally
  \/ LP_Call
  \/ LP_Load
  \/ LP_Validity
  \/ LP_Filter
  \/ LP_Exclude
  \/ LP_Preprocess
  \/ LP_TimeDifference
  \/ LP_Encode
  \/ LP_Save

Spec == Init /\ [][Next]_vars

(***************************************************************************)
(* DataProcessor.encode_categorical_columns called on a frame of its own:   *)
(* the frames are drawn from a pool of values of a categorical and a        *)
(* boolean column, of at most MaxFrame rows.                                *)
(***************************************************************************)
EncoderHeader == <<"LINIEN_TEXT", "FAELLT_AUS_TF">>

EncoderRow(text, flag) ==
  [c \in SeqToSet(EncoderHeader) |-> IF c = "LINIEN_TEXT" THEN text ELSE flag]

EncoderPool ==
  << EncoderRow(StrCell(sIC2), StrCell(sFalse)),
     EncoderRow(Missing, StrCell(sTrueCap)),
     EncoderRow(StrCell(sNan), StrCell(sFALSE)),
     EncoderRow(StrCell(sLow), StrCell(sTRuE)),
     EncoderRow(StrCell(sIC3), Missing),
     EncoderRow(StrCell(sS1), StrCell(sOne)),
     EncoderRow(StrCell(sIC2), StrCell(sTrue)),
     EncoderRow(StrCell(sL2), StrCell(sNan)) >>

EncoderFrames ==
  {Frame(EncoderPool, EncoderHeader, rows) :
     rows \in {x \in SUBSET DOMAIN EncoderPool : Cardinality(x) <= MaxFrame}}

InitEncoder ==
  /\ ddf \in EncoderFrames
  /\ pc = "enc_call"
  /\ folder = [files |-> 0, other |-> 0, header |-> <<>>, rows |-> {}]
  /\ args = NoArgs
  /\ caller = "encoder"
  /\ idx = 0
  /\ runs = 0
  /\ ingested = ddf.rows
  /\ proc = [cluster |-> None, client |-> None, encoding_maps |-> <<>>,
             output_file_path |-> "processed_data.parquet"]
  /\ analyzer = [cluster |-> None, client |-> None]
  /\ opened = {}
  /\ out = NoOut
  /\ ret = NoRet
  /\ fatal = "none"
  /\ pending = "none"
  /\ log = <<>>

\* processor.encode_categorical_columns(ddf)
ENC_Call ==
  /\ pc = "enc_call"
  /\ EncoderReturns("enc_done")
  /\ UNCHANGED <<folder, args, caller, idx, runs, ingested, analyzer, opened, ret,
                 fatal, pending>>

NextEncoder ==
  ENC_Call

SpecEncoder == InitEncoder /\ [][NextEncoder]_vars

(***************************************************************************)
(* Properties.                                                              *)
(***************************************************************************)
FilterStage ==
  pc \in {"pd_filter", "lp_validity", "lp_filter"}

\* C1: every step of the filter stage (the built-in validity filter and each
\* caller filter, in either pipeline) only removes rows: the rows after the
\* step are among the rows before it and among the ingested rows, and the row
\* count does not grow.
C1_FilterOnlyRemovesRows ==
  [][FilterStage =>
       /\ ddf'.rows \subseteq ddf.rows
       /\ ddf'.rows \subseteq ingested
       /\ Cardinality(ddf'.rows) <= Cardinality(ddf.rows)]_vars

\* A run of process_data in which a caller filter and the validity filter have
\* run and removed some, not all, of the ingested rows.
C1_Witness ==
  /\ pc = "pd_ts"
  /\ Len(log) >= 6
  /\ ddf.rows # {}
  /\ Cardinality(ddf.rows) < Cardinality(ingested)

\* The codes of a mapping: exactly 0 .. n-1, each used once.
DenseCodes(mapping, n) ==
  /\ {mapping[key] : key \in DOMAIN mapping} = 0 .. (n - 1)
  /\ Cardinality(DOMAIN mapping) = n

\* C2: for every categorical column the codes of the encoding map the encoder
\* built are exactly {0, ..., N-1}, each used once, N the number of distinct
\* stringified values of the column.
C2_CodesAreDense ==
  pc = "enc_done" =>
    \A col \in SeqToSet(categorical_columns) \cap Columns(ddf) :
      DenseCodes(proc.encoding_maps[col],
                 Cardinality({Str(ddf.val[col][r]) : r \in ddf.rows}))

\* The text is `lower` up to the case of its letters ('a'..'z' of `lower`).
IsCaseVariantOf(text, lower) ==
  /\ Len(text) = Len(lower)
  /\ \A i \in DOMAIN lower : text[i] = lower[i] \/ text[i] = lower[i] - 32

\* C3: for every boolean column and every value, the encoded value is 0 when
\* the value's text is "false" in any letter case, 1 when it is "true" in any
\* letter case, and null for every other value, a missing one included.
C3_BooleanCodes ==
  pc = "enc_done" =>
    \A col \in SeqToSet(bool_columns) \cap Columns(ddf) : \A r \in ddf.rows :
      LET v == ddf.val[col][r]
          text == IF v.k = "nan" THEN sNan ELSE v.s
          code == ddf.val[Encoded(col)][r]
      IN  /\ code \in {NumCell(0), NumCell(1), Missing}
          /\ IsCaseVariantOf(text, sFalse) => code = NumCell(0)
          /\ IsCaseVariantOf(text, sTrue) => code = NumCell(1)
          /\ ~IsCaseVariantOf(text, sFalse) /\ ~IsCaseVariantOf(text, sTrue)
               => code = Missing

\* A frame encoded with "FALSE", "tRuE" and a missing value in a boolean column.
C3_Witness ==
  /\ pc = "enc_done"
  /\ {StrCell(sFALSE), StrCell(sTRuE), Missing}
       \subseteq {ddf.val["FAELLT_AUS_TF"][r] : r \in ddf.rows}
  /\ {NumCell(0), NumCell(1), Missing}
       = {ddf.val["FAELLT_AUS_TF_encoded"][r] : r \in ddf.rows}

\* The columns the encoder of the running call has encoded.
EncodedNow ==
  {c \in SeqToSet(bool_columns \o categorical_columns) : Encoded(c) \in Columns(ddf)}

\* C4: after the encoder of any run of process_data (a later run on the same
\* instance included) the pickled artifact, reloaded, holds exactly the columns
\* encoded in this run, each with the value-to-code pairs that produced the
\* run's encoded column.
C4_ArtifactIsThisRunsMapping ==
  (pc = "pd_drop" /\ out.pkl.written) =>
    LET loaded == PickleLoad(out.pkl.content)
    IN  /\ DOMAIN loaded = EncodedNow
        /\ \A c \in EncodedNow : \A r \in ddf.rows :
             ddf.val[Encoded(c)][r] =
               MapValue(loaded[c],
                        IF c \in SeqToSet(bool_columns)
                          THEN Lower(Str(ddf.val[c][r]))
                          ELSE Str(ddf.val[c][r]))

\* The clusters and clients the calls of process_data so far have created.
ProcessorHandles ==
  {Cluster(2 * n - 1) : n \in 1 .. runs} \cup {Client(2 * n - 1) : n \in 1 .. runs}

\* C5: when process_data is not running (it has returned None or the path, or
\* an interrupt has propagated out of it), no cluster and no client that a
\* call of process_data created is open.
C5_HandlesClosedOnReturn ==
  pc \notin PD_TryBody \cup {"pd_finally"} => opened \cap ProcessorHandles = {}

\* process_data has returned None after Client(self.cluster) raised: the run
\* had created its cluster and no client.
C5_Witness ==
  /\ pc = "returned"
  /\ caller = "direct"
  /\ fatal = "client"
  /\ proc.cluster = Cluster(ProcessorId)
  /\ proc.client = None
  /\ log = <<"init", "finally">>

\* What the entry point the caller called has returned.
Result ==
  CASE caller = "legacy" -> ret.legacy
    [] caller = "process_all" -> ret.process_all
    [] OTHER -> ret.process_data

IsPath(value) ==
  value \notin {"pending", "None", "raised"}

C7_UnknownFilterColumnAborts ==
  (/\ pc = "returned"
   /\ pending = "none"
   /\ \E i \in DOMAIN args.filters : args.filters[i][1] \notin SeqToSet(folder.header))
    => Result = "None" /\ ~out.parquet.written

\* The log entries of the caller filters on the columns `cols`, in the order
\* of the filter map.
FilterEntries(filters, cols) ==
  LET applied == SelectSeq(filters, LAMBDA f : f[1] \in cols)
  IN  [i \in DOMAIN applied |-> "filter:" \o applied[i][1]]

\* The position in the filter map of the filter a log entry names.
FilterPosition(filters, entry) ==
  CHOOSE n \in DOMAIN filters : "filter:" \o filters[n][1] = entry

\* C8: in the filter stage every caller filter is applied after the validity
\* filter and after the drop of the two status columns, and the caller filters
\* are applied in the order of the filter map.
C8_ValidityFilterFirst ==
  LET entries == {"filter:" \o args.filters[n][1] : n \in DOMAIN args.filters}
  IN  /\ \A i \in DOMAIN log :
           log[i] \in entries =>
             \E j \in 1 .. (i - 1) : \E k \in (j + 1) .. (i - 1) :
               log[j] = "validity" /\ log[k] = "drop_status"
      /\ \A i, j \in DOMAIN log :
           (i < j /\ log[i] \in entries /\ log[j] \in entries) =>
             FilterPosition(args.filters, log[i]) < FilterPosition(args.filters, log[j])

\* C8 as amended: process_data applies the caller filters first, in the order
\* of the filter map and only those whose column is in the frame, then the
\* validity filter followed by the drop of the status columns (both only when
\* both status columns are in the frame); _apply_filters applies the validity
\* filter first, then the caller filters in the order of the filter map, and
\* leaves the status columns in the frame.
C8_FilterStageOrder ==
  /\ (pc = "pd_ts" /\ idx = 1) =>
       LET needed == SeqToSet(folder.header) \ args.exclude
           status == StatusColumns \subseteq needed
       IN  /\ log = <<"init", "list", "read">>
                    \o FilterEntries(args.filters, needed)
                    \o (IF status THEN <<"validity", "drop_status">> ELSE <<>>)
           /\ status => StatusColumns \cap Columns(ddf) = {}
           /\ ~status => Columns(ddf) = needed
  /\ (pc = "lp_filter" /\ idx > Len(args.filters)) =>
       /\ log = <<"read", "validity">>
                \o FilterEntries(args.filters, SeqToSet(folder.header))
       /\ StatusColumns \subseteq Columns(ddf)

\* process_data has applied two caller filters in the order of the map, then
\* the validity filter and the drop of the status columns.
C8_Witness ==
  /\ pc = "pd_ts"
  /\ idx = 1
  /\ log = <<"init", "list", "read", "filter:LINIEN_ID", "filter:LINIEN_TEXT",
             "validity", "drop_status">>
  /\ ddf.rows # {}
  /\ ddf.rows # ingested

\* C9: the dataset process_data writes has no raw timestamp column and no
\* boolean or categorical column in its pre-encoding form.
C9_NoRawColumnsInOutput ==
  (out.parquet.written /\ caller # "legacy") =>
    Columns(out.parquet.content)
      \cap (RawTimestampColumns \cup SeqToSet(bool_columns \o categorical_columns)) = {}

\* C10: no run is aborted by a timestamp value that fails to parse (the
\* Exception such a value raises when the frame is computed).
C10_UnparseableValueIsRowLocal ==
  fatal # "value"

\* The encoder of the running call has returned, one of its two artifacts
\* (category_encodings.pkl, category_mappings.txt) was not written, and no
\* KeyboardInterrupt has ended the call.
ArtifactWriteFailed ==
  /\ caller \in {"direct", "process_all"}
  /\ pending = "none"
  /\ "save_maps" \in SeqToSet(log)
  /\ ~out.pkl.written \/ ~out.txt.written

\* C11: a failed write of an encoding artifact does not abort the run: the
\* encoder has returned the frame with the encoded column of every boolean and
\* categorical column in it and no Exception is recorded, the stage after the
\* encoder runs, the only Exceptions of such a run are those to_parquet raises
\* itself, and without one the dataset is written and process_data returns the
\* output path.
C11_ArtifactFailureIsNotFatal ==
  ArtifactWriteFailed =>
    /\ pc = "pd_drop" \/ "drop_originals" \in SeqToSet(log)
    /\ pc = "pd_drop" =>
         /\ fatal = "none"
         /\ \A c \in SeqToSet(Present(ddf, bool_columns \o categorical_columns)) :
              Encoded(c) \in Columns(ddf)
    /\ "write" \notin SeqToSet(log) => fatal = "none"
    /\ (pc \in {"returned", "pa_after"} /\ pending = "none" /\ fatal = "none") =>
         /\ out.parquet.written
         /\ ret.process_data = args.path

\* process_data has returned the path of the written dataset in a run whose
\* pickle could not be written.
C11_Witness ==
  /\ pc = "returned"
  /\ caller = "direct"
  /\ "save_maps" \in SeqToSet(log)
  /\ ~out.pkl.written
  /\ ~out.txt.written
  /\ out.parquet.written
  /\ ret.process_data = "processed_data.parquet"
  /\ "LINIEN_TEXT_encoded" \in Columns(out.parquet.content)

\* C12: from the write of the dataset to the return of the call, no step
\* removes or alters the written dataset, and when validate_parquet has
\* reported a failure the call has recorded no Exception and returns the
\* output path.
C12_ValidationFailureIsReportedOnly ==
  [][(out.parquet.written /\ pc # "returned") =>
       /\ out'.parquet = out.parquet
       /\ out'.path = out.path
       /\ out'.validated = "failed" =>
            /\ fatal' = "none"
            /\ ret'.process_data = out.path]_vars

\* process_data has returned the path after a failed validation, the dataset
\* as written.
C12_Witness ==
  /\ pc = "returned"
  /\ caller = "direct"
  /\ out.validated = "failed"
  /\ out.parquet.written
  /\ out.parquet.content.rows # {}
  /\ ret.process_data = "processed_data.parquet"

\* C13: in a call on a folder without a .csv file no data is read, no filter,
\* timestamp, encoding or write stage runs, no artifact and no dataset is
\* written, and the entry point, once it has returned, has returned None.
C13_NoMatchingFileIsFatal ==
  (folder.files = 0 /\ caller # "none") =>
    /\ ingested = {}
    /\ ddf = NoFrame
    /\ SeqToSet(log) \subseteq {"download", "init", "list", "read", "finally"}
    /\ caller # "legacy" => "read" \notin SeqToSet(log)
    /\ out = NoOut
    /\ proc.encoding_maps = <<>>
    /\ (pc = "returned" /\ pending = "none") =>
         /\ Result = "None"
         /\ fatal \in {"no_files", "cluster", "client", "download"}

\* process_data has returned None from the listing of a folder that holds
\* files, none of them a .csv file.
C13_Witness ==
  /\ pc = "returned"
  /\ caller = "direct"
  /\ folder.files = 0
  /\ folder.other = 1
  /\ fatal = "no_files"
  /\ log = <<"init", "list", "finally">>
  /\ ret.process_data = "None"

(***************************************************************************)
(* The partition count of process_data's write, as a function of the sizes  *)
(* of the .csv files.  Sizes are counted in KiB, so that 10 GB stay within  *)
(* the integers of the model checker.                                       *)
(***************************************************************************)
\* 1024**3 bytes, in KiB.
KiBPerGB == 1048576

MaxHalfGB == 20

\* n_partitions without the max(1, ...).
PartitionsUnclamped(total) ==
  (2 * total) \div KiBPerGB

\* total_size = sum(os.path.getsize(f) for f in data_files) / (1024**3)
\* n_partitions = max(1, int(total_size * 2)), of the total in KiB.  The
\* division by a power of two and the doubling are exact in floating point,
\* int() truncates.
n_partitions(total) ==
  LET twice == (2 * total) \div KiBPerGB
  IN  IF twice > 1 THEN twice ELSE 1

\* sum(os.path.getsize(f) for f in data_files)
RECURSIVE SumSizes(_)
SumSizes(sizes) ==
  IF sizes = <<>> THEN 0 ELSE Head(sizes) + SumSizes(Tail(sizes))

\* The sizes of the first file: around every multiple of half a GB.
FileSizes ==
  {k * (KiBPerGB \div 2) + d : k \in 0 .. MaxHalfGB, d \in {-1, 0, 1}} \cap Nat

\* The sizes of a second file, when there is one.
SecondFileSizes ==
  {0, 1, (KiBPerGB \div 2) - 1}

InitPartitions ==
  /\ folder \in {[files |-> Len(sizes), other |-> 0, header |-> FullHeader,
                  rows |-> {1}, sizes |-> sizes] :
                   sizes \in {<<a>> : a \in FileSizes} \cup
                             {<<a, b>> : a \in FileSizes, b \in SecondFileSizes}}
  /\ pc = "size_call"
  /\ args = NoArgs
  /\ caller = "direct"
  /\ idx = 0
  /\ runs = 1
  /\ ddf = NoFrame
  /\ ingested = {}
  /\ proc = [cluster |-> None, client |-> None, encoding_maps |-> <<>>,
             output_file_path |-> "processed_data.parquet"]
  /\ analyzer = [cluster |-> None, client |-> None]
  /\ opened = {}
  /\ out = NoOut
  /\ ret = NoRet
  /\ fatal = "none"
  /\ pending = "none"
  /\ log = <<>>

\* The two statements of process_data that size the write: total_size from the
\* listing, n_partitions before ddf.repartition(npartitions=n_partitions).
\* idx holds the count.
PART_Count ==
  /\ pc = "size_call"
  /\ idx' = n_partitions(SumSizes(folder.sizes))
  /\ pc' = "size_done"
  /\ UNCHANGED <<folder, args, caller, runs, ddf, ingested, proc, analyzer,
                 opened, out, ret, fatal, pending, log>>

NextPartitions ==
  PART_Count

SpecPartitions == InitPartitions /\ [][NextPartitions]_vars

\* C14: the partition count of the write is at least 1, it is 1 for a total
\* size below 1 GB, for a larger size it is the number of whole half GB in
\* the total size, and it is 10 for 5 GB.
C14_PartitionCount ==
  pc = "size_done" =>
    LET total == SumSizes(folder.sizes)
        half == KiBPerGB \div 2
    IN  /\ idx >= 1
        /\ total < 2 * half => idx = 1
        /\ total >= 2 * half => idx * half <= total /\ total < (idx + 1) * half
        /\ total = 5 * KiBPerGB => idx = 10

\* The counts of a 5 GB input in one file.
C14_Witness ==
  /\ pc = "size_done"
  /\ folder.sizes = <<5 * KiBPerGB>>
  /\ idx = 10

\* C15: every written dataset was written under an explicit schema that lists
\* the columns of the dataset in order, each with one of the types bool,
\* int64, float64 and string.
C15_ExplicitSchema ==
  out.parquet.written =>
    /\ out.schema.explicit
    /\ [i \in DOMAIN out.schema.fields |-> out.schema.fields[i][1]]
         = out.parquet.content.cols
    /\ \A i \in DOMAIN out.schema.fields :
         out.schema.fields[i][2] \in {"bool", "int64", "float64", "string"}

\* C16: the codes of a categorical column do not depend on how the rows are
\* split into partitions: after the encoding of data_processing.py the code
\* of every row is the one its value has when the whole column is encoded at
\* once, so that equal values have equal codes in every partition.
C16_CodesIndependentOfPartitions ==
  pc = "lp_save" =>
    \A c \in Columns(ddf) \cap SeqToSet(categorical_columns) :
      LET column == [r \in ddf.rows |-> RowPool[r][c]]
      IN  /\ \A r \in ddf.rows : ddf.val[c][r] = CategoryCodes(column, ddf.rows)[r]
          /\ \A r1, r2 \in ddf.rows :
               column[r1] = column[r2] => ddf.val[c][r1] = ddf.val[c][r2]

\* The timestamp the cell of row r in column c parses to; NaT when it is
\* missing or does not parse.
Parsed(r, c) ==
  IF ParseRaises(RowPool[r][c]) THEN Missing ELSE ToDatetime(RowPool[r][c])

\* The timestamp with the fields x is earlier than the one with the fields y.
Earlier(x, y) ==
  \E i \in 1 .. 6 : x[i] < y[i] /\ \A j \in 1 .. (i - 1) : x[j] = y[j]

\* The (pair, row) for which a difference has been computed.
Differences ==
  {<<i, r>> \in (DOMAIN timestamp_pairs) \X ddf.rows :
     /\ timestamp_pairs[i][3] \in Columns(ddf)
     /\ Parsed(r, timestamp_pairs[i][1]).k = "dt"
     /\ Parsed(r, timestamp_pairs[i][2]).k = "dt"}

\* C17: after the timestamp stage of either pipeline, the difference of two
\* parsed timestamps is a number, positive when the actual time is the later
\* one, negative when it is the earlier one and 0 when the two are equal; it
\* is +300 for 2024-01-01 10:05:00 against 10:00:00, and two differences with
\* exchanged operands are the negation of each other.
C17_SignedDifference ==
  pc \in {"pd_encode", "lp_encode"} =>
    \A x \in Differences :
      LET a == Parsed(x[2], timestamp_pairs[x[1]][1])
          p == Parsed(x[2], timestamp_pairs[x[1]][2])
          diff == ddf.val[timestamp_pairs[x[1]][3]][x[2]]
      IN  /\ diff.k = "num"
          /\ a = p => diff.n = 0
          /\ Earlier(p.s, a.s) => diff.n > 0
          /\ Earlier(a.s, p.s) => diff.n < 0
          /\ (a.s = <<2024, 1, 1, 10, 5, 0>> /\ p.s = <<2024, 1, 1, 10, 0, 0>>)
               => diff.n = 300
          /\ \A y \in Differences :
               (/\ Parsed(y[2], timestamp_pairs[y[1]][1]) = p
                /\ Parsed(y[2], timestamp_pairs[y[1]][2]) = a)
                 => ddf.val[timestamp_pairs[y[1]][3]][y[2]].n = 0 - diff.n

\* process_data has computed +300 for a row, -300 for a row with the two
\* times exchanged, and 0 for a row with equal times.
C17_Witness ==
  /\ pc = "pd_encode"
  /\ {1, 3} \subseteq ddf.rows
  /\ {"ARRIVAL_TIME_DIFF_SECONDS", "DEPARTURE_TIME_DIFF_SECONDS"} \subseteq Columns(ddf)
  /\ ddf.val["ARRIVAL_TIME_DIFF_SECONDS"][1] = NumCell(300)
  /\ ddf.val["ARRIVAL_TIME_DIFF_SECONDS"][3] = NumCell(-300)
  /\ ddf.val["DEPARTURE_TIME_DIFF_SECONDS"][1] = NumCell(0)

\* The stage a log entry belongs to: 1 ingest, 2 filter, 3 the column
\* exclusion and cleaning of data_processing.py, 4 timestamps, 5 encoding with
\* its artifacts and the drop of the encoded originals, 6 write, 7 validate,
\* 8 the release of the cluster, 9 the analysis of process_all.
Stage(entry) ==
  CASE entry \in {"download", "init", "list", "read"} -> 1
    [] entry \in {"validity", "drop_status"} -> 2
    [] entry \in {"exclude", "preprocess"} -> 3
    [] entry \in {"timestamps:" \o timestamp_pairs[i][3] : i \in DOMAIN timestamp_pairs} -> 4
    [] entry \in {"encode", "save_maps", "drop_originals"} -> 5
    [] entry = "write" -> 6
    [] entry = "validate" -> 7
    [] entry = "finally" -> 8
    [] entry \in {"analysis_init", "analysis"} -> 9
    [] OTHER -> 2

StageEntries ==
  SelectSeq(log, LAMBDA entry : entry # "finally")

\* The stage in which the fatal error of the run was raised: the last one
\* entered.
FailedStage ==
  IF StageEntries = <<>> THEN "none" ELSE StageEntries[Len(StageEntries)]

\* C19: after a fatal error no later stage of the run executes: nothing is
\* appended to the log but the release of the cluster, no dataset or artifact
\* is written and the encoding maps stay as they are; a run whose error was
\* raised before the write stage has no write and no written dataset, and no
\* failed run has a validation.
C19_NoStageAfterFatalError ==
  /\ [](fatal # "none" =>
          /\ "validate" \notin SeqToSet(log)
          /\ out.validated = "no"
          /\ "write" \in SeqToSet(log) => FailedStage = "write"
          /\ FailedStage # "write" => ~out.parquet.written
          /\ {"analysis_init", "analysis"} \cap SeqToSet(log) = {})
  /\ [][(fatal # "none" /\ pc # "returned") =>
          /\ fatal' = fatal
          /\ log' \in {log, Append(log, "finally")}
          /\ out' = out
          /\ proc'.encoding_maps = proc.encoding_maps
          /\ ddf' \in {ddf, NoFrame}]_vars

\* A run of process_data whose encoder raised has returned: the cluster is
\* released and nothing else has run.
C19_Witness ==
  /\ pc = "returned"
  /\ caller = "direct"
  /\ fatal = "value"
  /\ FailedStage = "encode"
  /\ log[Len(log)] = "finally"

\* C20: after the encoder has run, for every categorical column of the frame
\* and every row, a row with a missing value included, the stringified value
\* is a key of the column's encoding map and the encoded value is the code of
\* that key, never null.
C20_EncodingIsTotal ==
  pc = "enc_done" =>
    \A col \in SeqToSet(categorical_columns) \cap Columns(ddf) : \A r \in ddf.rows :
      LET mapping == proc.encoding_maps[col]
          key == Str(ddf.val[col][r])
      IN  /\ key \in DOMAIN mapping
          /\ ddf.val[Encoded(col)][r] = NumCell(mapping[key])
          /\ ddf.val[Encoded(col)][r] # Missing

\* A frame encoded with a missing value and a text in the categorical column:
\* the missing value has the code of the key "nan".
C20_Witness ==
  /\ pc = "enc_done"
  /\ \E r, q \in ddf.rows :
       /\ ddf.val["LINIEN_TEXT"][r] = Missing
       /\ ddf.val["LINIEN_TEXT"][q] = StrCell(sIC2)
       /\ ddf.val["LINIEN_TEXT_encoded"][r]
            = NumCell(proc.encoding_maps["LINIEN_TEXT"][sNan])
       /\ ddf.val["LINIEN_TEXT_encoded"][q].k = "num"

\* The clusters among a set of handles.
Clusters(open) ==
  {h \in open : h.kind = "cluster"}

\* C21: at most one cluster (and one client) is open at any time; when
\* process_data has returned to process_all and when analyze_delays creates
\* its cluster, the cluster and the client of the processor are closed; while
\* the analysis runs only the analyzer's own cluster and client are open; and
\* when process_all has returned or raised, with or without an analysis,
\* nothing is open.
C21_AtMostOneClusterOpen ==
  /\ Cardinality(Clusters(opened)) <= 1
  /\ Cardinality(opened \ Clusters(opened)) <= 1
  /\ pc \in {"pa_after", "an_init"} => opened = {}
  /\ pc \in {"an_run", "an_finally"} =>
       /\ opened \cap ProcessorHandles = {}
       /\ opened \subseteq {Cluster(AnalyzerId), Client(AnalyzerId)}
  /\ pc \in {"idle", "returned"} => opened = {}

\* The second call of process_all runs its analysis: the analyzer's cluster
\* and client are open, those the processor created in this call are closed.
C21_Witness ==
  /\ pc = "an_run"
  /\ caller = "process_all"
  /\ runs = 2
  /\ proc.cluster = Cluster(ProcessorId)
  /\ proc.client = Client(ProcessorId)
  /\ opened = {Cluster(AnalyzerId), Client(AnalyzerId)}

============================================================================
